---------------------------- MODULE Spec2Model ----------------------------
(***************************************************************************)
(* A model of the semantic-analysis core of anchor-sentinel:               *)
(*   - the taint tracker          (src/src/analysis/taint.rs),             *)
(*   - the scope tracker, CFG-lite (src/src/analysis/cfg.rs),              *)
(*   - the program index          (src/src/analysis/context.rs).           *)
(*                                                                         *)
(* The engines walk syn 2 syntax trees.  A tree is a record with a `tag`   *)
(* naming the syn variant; a recursive visit is a stack of pending nodes   *)
(* (`t_work`, `s_work`): a handler pops the node it visits and pushes, in  *)
(* order, the children its code visits, followed by whatever the handler   *)
(* still does after those visits return.                                   *)
(*                                                                         *)
(* String tests of the code (`contains`, `starts_with`, `is_alphabetic`)   *)
(* are tabulated over the finite vocabulary of the trees below.            *)
(***************************************************************************)
EXTENDS Integers, Sequences, FiniteSets, TLC

VARIABLES
    \* ---- taint tracker (taint.rs) ----
    func,           \* the ItemFn handed to analyze_function
    variables,      \* TaintContext.variables : name -> TaintStatus
    flows,          \* TaintTracker.flows
    current_line,   \* TaintVisitor.current_line
    t_work,         \* pending visits of the TaintVisitor
    t_pc,           \* "idle" | "new" | "walk" | "done"
    \* ---- scope tracker (cfg.rs) ----
    file,           \* the syn::File handed to analyze: a sequence of fn bodies
    current_depth,  \* ScopeTracker.current_depth
    validated_at,   \* ScopeTracker.validated_at : name -> depth
    usages,         \* ScopeTracker.usages
    s_work,         \* pending visits of the ScopeTracker
    s_pc,           \* "idle" | "new" | "walk" | "walked" | "done"
    violations,     \* what find_scope_violations returned
    \* ---- program index (context.rs) ----
    structs,        \* ProgramContext.structs
    accounts,       \* ProgramContext.accounts
    constants,      \* ProgramContext.constants
    instructions,   \* ProgramContext.instructions
    file_cache,     \* ProgramContext.file_cache
    indexed,        \* the files handed to index_file so far, in call order
    panicked,       \* TRUE once an index_file call has panicked
    \* ---- the scan driver (main.rs) ----
    scan_files,     \* perform_scan's `files`: the files of the scan, in order
    scan_pos,       \* how many of them the `for file_path in &files` loop has handled
    scan_context,   \* the AnalysisContext parse_anchor_files returned, or None
    detector_runs,  \* the registry.run_all calls made: file and program_context seen
    scan_pc         \* "idle" | "start" | "loop" | "parsed" | "done"

taint_vars == <<func, variables, flows, current_line, t_work, t_pc>>
scope_vars == <<file, current_depth, validated_at, usages, s_work, s_pc, violations>>
index_vars == <<structs, accounts, constants, instructions, file_cache, indexed, panicked>>
scan_vars == <<scan_files, scan_pos, scan_context, detector_runs, scan_pc>>
vars == <<taint_vars, scope_vars, index_vars, scan_vars>>

\* The function with an empty domain: an empty HashMap.
EmptyMap == [x \in {} |-> x]

-----------------------------------------------------------------------------
(* Bounds of the model *)

\* longest function body (statements at nesting level 0) of the taint inputs
MaxStmts == 2
\* longest function body of the scope tracker's inputs
MaxScopeStmts == 2
\* most index_file calls made on one ProgramContext
MaxIndexCalls == 4
\* deepest nesting of parentheses, casts and unary operators around the
\* operand of a constant's initializer
MaxWrap == 2
\* most files collected for one scan
MaxScanFiles == 3

-----------------------------------------------------------------------------
(* syn syntax trees *)

EPath(segs)               == [tag |-> "Path", segs |-> segs]
EIdent(name)              == EPath(<<name>>)
ELitInt(n)                == [tag |-> "Lit", kind |-> "Int", value |-> n]
EBinary(l, op, r)         == [tag |-> "Binary", left |-> l, op |-> op, right |-> r]
EParen(e)                 == [tag |-> "Paren", expr |-> e]
EUnary(op, e)             == [tag |-> "Unary", op |-> op, expr |-> e]
EField(base, member)      == [tag |-> "Field", base |-> base, member |-> member]
ETry(e)                   == [tag |-> "Try", expr |-> e]
ECast(e, ty)              == [tag |-> "Cast", expr |-> e, ty |-> ty]
ELitStr(str)              == [tag |-> "Lit", kind |-> "Str", value |-> 0]
ECall(f, args)            == [tag |-> "Call", func |-> f, args |-> args]
EMethodCall(recv, m, args) == [tag |-> "MethodCall", receiver |-> recv, method |-> m, args |-> args]
Mac(path, tokens)         == [path |-> path, tokens |-> tokens]
EMacro(mac)               == [tag |-> "Macro", mac |-> mac]
\* else_branch is <<>> (no else) or <<e>> with e an If or a Block expression
EIf(cond, then_branch, else_branch) ==
    [tag |-> "If", cond |-> cond, then_branch |-> then_branch, else_branch |-> else_branch]
EBlock(stmts)             == [tag |-> "Block", stmts |-> stmts]
ELoop(body)               == [tag |-> "Loop", stmts |-> body]
EWhile(cond, body)        == [tag |-> "While", cond |-> cond, stmts |-> body]
EForLoop(pat, e, body)    == [tag |-> "ForLoop", pat |-> pat, expr |-> e, stmts |-> body]

PatIdent(name)            == [kind |-> "Ident", names |-> <<name>>]
PatType(name)             == [kind |-> "Type", names |-> <<name>>]   \* `x: T`
PatTuple(names)           == [kind |-> "Tuple", names |-> names]     \* `(a, b)`

SLocal(pat, init)         == [tag |-> "Local", pat |-> pat, init |-> init] \* init: <<>> or <<e>>
SExpr(e, semi)            == [tag |-> "Expr", expr |-> e, semi |-> semi]
SMacro(mac, semi)         == [tag |-> "StmtMacro", mac |-> mac, semi |-> semi]

\* FnArg::Typed(pat: ty); FnArg::Receiver is `self`
ArgTyped(pat, ty)         == [kind |-> "Typed", pat |-> pat, ty |-> ty]
ItemFn(name, inputs, body) == [tag |-> "Fn", name |-> name, inputs |-> inputs, stmts |-> body]

\* syn 2 parses an expression statement that is a macro invocation followed by
\* `;` as Stmt::Macro, and any other expression statement as Stmt::Expr.
\* (Only paren-delimited macro invocations are modelled.)
parse_stmt(e, semi) ==
    IF e.tag = "Macro" /\ semi THEN SMacro(e.mac, TRUE) ELSE SExpr(e, semi)

-----------------------------------------------------------------------------
(* Sequence helpers *)

RECURSIVE Flatten(_)
Flatten(ss) == IF ss = <<>> THEN <<>> ELSE Head(ss) \o Flatten(Tail(ss))

SeqMap(Op(_), s) == [i \in 1..Len(s) |-> Op(s[i])]

IsPrefix(s, t) == Len(s) <= Len(t) /\ SubSeq(t, 1, Len(s)) = s

SeqsUpTo(S, n) == UNION {[1..k -> S] : k \in 0..n}


-----------------------------------------------------------------------------
(* Token text of a tree, as `quote::quote!(..).to_string()` prints it, kept *)
(* as the sequence of its identifier-like words (the maximal runs of        *)
(* alphanumerics and `_`); punctuation never takes part in the tests made.  *)

RECURSIVE ExprWords(_), StmtWords(_), StmtsWords(_), ExprsWords(_)
ExprWords(e) ==
    CASE e.tag = "Path"       -> e.segs
      [] e.tag = "Lit"        -> <<>>
      [] e.tag = "Binary"     -> ExprWords(e.left) \o ExprWords(e.right)
      [] e.tag \in {"Paren", "Unary", "Try"} -> ExprWords(e.expr)
      [] e.tag = "Cast"       -> ExprWords(e.expr) \o <<"as", e.ty>>
      [] e.tag = "Field"      -> ExprWords(e.base) \o <<e.member>>
      [] e.tag = "Call"       -> ExprWords(e.func) \o ExprsWords(e.args)
      [] e.tag = "MethodCall" -> ExprWords(e.receiver) \o <<e.method>> \o ExprsWords(e.args)
      [] e.tag = "Macro"      -> e.mac.path \o e.mac.tokens
      [] e.tag = "If"         -> <<"if">> \o ExprWords(e.cond) \o StmtsWords(e.then_branch)
                                   \o (IF e.else_branch = <<>> THEN <<>>
                                       ELSE <<"else">> \o ExprsWords(e.else_branch))
      [] e.tag = "Block"      -> StmtsWords(e.stmts)
      [] e.tag = "Loop"       -> <<"loop">> \o StmtsWords(e.stmts)
      [] e.tag = "While"      -> <<"while">> \o ExprWords(e.cond) \o StmtsWords(e.stmts)
      [] e.tag = "ForLoop"    -> <<"for">> \o e.pat.names \o <<"in">> \o ExprWords(e.expr)
                                   \o StmtsWords(e.stmts)
ExprsWords(es) == IF es = <<>> THEN <<>> ELSE ExprWords(Head(es)) \o ExprsWords(Tail(es))
StmtWords(s) ==
    CASE s.tag = "Local"     -> <<"let">> \o s.pat.names \o ExprsWords(s.init)
      [] s.tag = "Expr"      -> ExprWords(s.expr)
      [] s.tag = "StmtMacro" -> s.mac.path \o s.mac.tokens
StmtsWords(ss) == IF ss = <<>> THEN <<>> ELSE StmtWords(Head(ss)) \o StmtsWords(Tail(ss))

\* char::is_alphabetic of the first character of a word
starts_alphabetic(w) == w \notin {"0", "1", "10", "100", "1000", ">", "<", "+", ",", "::"}

\* str::contains(pat) for a word w of the vocabulary (case-sensitive)
Contains(w, pat) ==
    CASE pat = "transfer"         -> w \in {"transfer", "transfer_checked"}
      [] pat = "transfer_checked" -> w = "transfer_checked"
      [] pat = "invoke"           -> w \in {"invoke", "invoke_signed"}
      [] pat = "burn"             -> w = "burn"
      [] pat = "require"          -> w \in {"require", "require_eq"}
      [] pat = "assert"           -> w \in {"assert", "assert_eq"}
      [] pat = "account"          -> w = "account"
      [] pat = "derive"           -> w = "derive"
      [] pat = "Accounts"         -> w = "Accounts"
      [] pat = "Context"          -> w = "Context"
\* str::contains(pat) for a token text given by its words
TextContains(words, pat) == \E i \in 1..Len(words) : Contains(words[i], pat)

\* str::to_lowercase: every word of the vocabulary that takes part in the
\* lower-cased tests is already lower case, except these
to_lowercase(w) ==
    CASE w = "Accounts" -> "accounts"
      [] w = "Context"  -> "context"
      [] OTHER          -> w

\* str::starts_with for method names
starts_with(w, pat) ==
    CASE pat = "checked_"    -> w \in {"checked_add", "checked_mul"}
      [] pat = "saturating_" -> w \in {"saturating_sub"}

-----------------------------------------------------------------------------
(* Taint tracker: taint.rs *)

TaintStatus == {"Clean", "Tainted", "Sanitized", "Unknown"}

\* TaintContext::get_status: a name that is not a key reads as Unknown
get_status(ctx, var) == IF var \in DOMAIN ctx THEN ctx[var] ELSE "Unknown"

\* A set_status that never overwrites Tainted.
set_status_keep_tainted(ctx, var, status) ==
    [v \in (DOMAIN ctx) \cup {var} |->
        IF v = var /\ get_status(ctx, v) # "Tainted" THEN status ELSE get_status(ctx, v)]

\* TaintContext::set_status: HashMap::insert
set_status(ctx, var, status) ==
    [v \in (DOMAIN ctx) \cup {var} |-> IF v = var THEN status ELSE ctx[v]]

\* TaintedFlow: the excerpt `code` is source_lines[line - 1] trimmed, a function
\* of `line` and of the source text alone; it is left out.
TaintedFlow(var, sink, line) == [variable |-> var, sink |-> sink, line |-> line]

\* A record_flow that also reports names whose status is not known.
record_flow_unknown(ctx, fl, var, sink, line) ==
    IF get_status(ctx, var) \in {"Tainted", "Unknown"}
    THEN Append(fl, TaintedFlow(var, sink, line))
    ELSE fl

\* TaintTracker::record_flow: the flow list after the call
record_flow(ctx, fl, var, sink, line) ==
    IF get_status(ctx, var) = "Tainted"
    THEN Append(fl, TaintedFlow(var, sink, line))
    ELSE fl

RECURSIVE extract_vars_recursive(_), extract_vars_args(_)
\* extract_vars_recursive: the names pushed for one expression, in order
extract_vars_recursive(e) ==
    CASE e.tag = "Path"       -> <<e.segs[1]>>
      [] e.tag = "Field"      -> extract_vars_recursive(e.base)
      [] e.tag = "Binary"     -> extract_vars_recursive(e.left) \o extract_vars_recursive(e.right)
      [] e.tag = "Call"       -> extract_vars_args(e.args)
      [] e.tag = "MethodCall" -> extract_vars_recursive(e.receiver) \o extract_vars_args(e.args)
      [] e.tag \in {"Paren", "Unary"} -> extract_vars_recursive(e.expr)
      [] OTHER                -> <<>>
extract_vars_args(es) ==
    IF es = <<>> THEN <<>> ELSE extract_vars_recursive(Head(es)) \o extract_vars_args(Tail(es))

extract_variables(e) == extract_vars_recursive(e)

\* extract_vars_from_str: split on non-word characters, keep alphabetic starts
extract_vars_from_str(tokens) == SelectSeq(tokens, starts_alphabetic)

\* the `for var in vars` loops of analyze_expr
AnyTainted(ctx, vs) == \E i \in 1..Len(vs) : get_status(ctx, vs[i]) = "Tainted"
AnyUnknown(ctx, vs) == \E i \in 1..Len(vs) : get_status(ctx, vs[i]) = "Unknown"

RECURSIVE analyze_expr(_, _)
\* TaintVisitor::analyze_expr
analyze_expr(ctx, e) ==
    CASE e.tag = "Path" ->
            IF Len(e.segs) = 1 THEN get_status(ctx, e.segs[1])
            ELSE IF AnyTainted(ctx, extract_variables(e)) THEN "Tainted"
            ELSE IF AnyUnknown(ctx, extract_variables(e)) THEN "Unknown"
            ELSE "Clean"
      [] e.tag = "Binary" ->
            LET left == analyze_expr(ctx, e.left)
                right == analyze_expr(ctx, e.right)
            IN  IF left = "Tainted" \/ right = "Tainted" THEN "Tainted"
                ELSE IF left = "Unknown" \/ right = "Unknown" THEN "Unknown"
                ELSE "Clean"
      [] e.tag = "Lit"  -> "Clean"
      [] e.tag = "Call" -> "Unknown"
      [] e.tag \in {"Paren", "Unary"} -> analyze_expr(ctx, e.expr)
      [] OTHER ->
            IF AnyTainted(ctx, extract_variables(e)) THEN "Tainted" ELSE "Unknown"

RECURSIVE record_flows(_, _, _, _, _)
\* `for var in vars { record_flow(&var, sink, line) }`
record_flows(ctx, fl, vs, sink, line) ==
    IF vs = <<>> THEN fl
    ELSE record_flows(ctx, record_flow(ctx, fl, Head(vs), sink, line), Tail(vs), sink, line)

\* `for arg in &node.args { for var in extract_variables(arg) { record_flow } }`
record_sink(ctx, fl, args, sink, line) ==
    record_flows(ctx, fl, extract_vars_args(args), sink, line)

\* Sanitizing loops that list the Tainted names but leave them Tainted.
sanitize_none(ctx, vs) ==
    [ctx |-> ctx, restore |-> SelectSeq(vs, LAMBDA v : get_status(ctx, v) = "Tainted")]

RECURSIVE sanitize_all(_, _)
\* the sanitizing loops of visit_expr_macro and visit_expr_if: every name of
\* vs that is Tainted becomes Sanitized; `restore` lists them in order
sanitize_all(ctx, vs) ==
    IF vs = <<>> THEN [ctx |-> ctx, restore |-> <<>>]
    ELSE IF get_status(ctx, Head(vs)) = "Tainted"
         THEN LET r == sanitize_all(set_status(ctx, Head(vs), "Sanitized"), Tail(vs))
              IN  [ctx |-> r.ctx, restore |-> <<Head(vs)>> \o r.restore]
         ELSE sanitize_all(ctx, Tail(vs))

\* A restore loop that sets every Sanitized name Tainted.
restore_every_sanitized(ctx, vs) ==
    [v \in DOMAIN ctx |-> IF ctx[v] = "Sanitized" THEN "Tainted" ELSE ctx[v]]

RECURSIVE restore_all(_, _)
\* `for var in vars_to_restore { set_status(var, Tainted) }`
restore_all(ctx, vs) ==
    IF vs = <<>> THEN ctx ELSE restore_all(set_status(ctx, Head(vs), "Tainted"), Tail(vs))

RECURSIVE seed_args(_, _)
\* step 1 of analyze_function: only FnArg::Typed with a Pat::Ident is seeded
seed_args(ctx, inputs) ==
    IF inputs = <<>> THEN ctx
    ELSE LET arg == Head(inputs)
         IN  IF arg.kind = "Typed" /\ arg.pat.kind = "Ident"
             THEN seed_args(set_status(ctx, arg.pat.names[1], "Tainted"), Tail(inputs))
             ELSE seed_args(ctx, Tail(inputs))

\* pending visits
VStmt(s)  == [k |-> "stmt", n |-> s]
VExpr(e)  == [k |-> "expr", n |-> e]
VLocal(s) == [k |-> "local", n |-> s]
VMac(m)   == [k |-> "macro", n |-> [tag |-> "Mac", mac |-> m]]
VRestore(vs) == [k |-> "restore", n |-> [tag |-> "Restore", names |-> vs]]
VEnter    == [k |-> "enter", n |-> [tag |-> "Enter"]]
VLeave    == [k |-> "leave", n |-> [tag |-> "Leave"]]
VStmts(ss) == SeqMap(VStmt, ss)
VExprs(es) == SeqMap(VExpr, es)


-----------------------------------------------------------------------------
(* Inputs of the taint tracker *)

RequireMac(v)  == Mac(<<"require">>, <<v, ">", "0">>)
TransferCall(arg) == ECall(EIdent("transfer"), <<arg>>)

\* `require!(amount > 0);`
StRequire     == parse_stmt(EMacro(RequireMac("amount")), TRUE)
\* `require!(amount > 0)` as the tail expression of a block
StRequireTail == parse_stmt(EMacro(RequireMac("amount")), FALSE)
\* `transfer(amount);`
StTransfer(v) == parse_stmt(TransferCall(EIdent(v)), TRUE)
\* `to.transfer(amount);`
StMethodTransfer == parse_stmt(EMethodCall(EIdent("to"), "transfer", <<EIdent("amount")>>), TRUE)
\* `let y = <init>;`
StLet(v, init) == SLocal(PatIdent(v), <<init>>)

TaintConds == {EIdent("cond"), EBinary(EIdent("amount"), ">", ELitInt(0))}
TaintThens == {<<StRequire>>, <<StRequireTail>>, <<StTransfer("amount")>>,
               <<StLet("y", EIdent("amount"))>>}
TaintElses == {<<>>, <<EBlock(<<StTransfer("amount")>>)>>}
TaintIfs   == {SExpr(EIf(c, t, e), FALSE) : c \in TaintConds, t \in TaintThens, e \in TaintElses}

TaintStmts ==
    {StRequire, StTransfer("amount"), StTransfer("y"), StMethodTransfer,
     StLet("y", EIdent("amount")), StLet("y", ELitInt(1))} \cup TaintIfs

\* `amount: u64` / `ctx: Context<Withdraw>, amount: u64` / `(amount, y): (u64, u64)`
TaintInputs ==
    {<<ArgTyped(PatIdent("amount"), <<"u64">>)>>,
     <<ArgTyped(PatIdent("ctx"), <<"Context", "<", "Withdraw", ">">>),
       ArgTyped(PatIdent("amount"), <<"u64">>)>>,
     <<ArgTyped(PatTuple(<<"amount", "y">>), <<"(", "u64", ",", "u64", ")">>)>>}

TaintFunctions ==
    {ItemFn("withdraw", i, b) : i \in TaintInputs, b \in SeqsUpTo(TaintStmts, MaxStmts)}

-----------------------------------------------------------------------------
(* The taint tracker's operations *)

\* the taint tracker shares no state with the other engines
TaintOnly == UNCHANGED <<scope_vars, index_vars, scan_vars>>

THead == Head(t_work)
TRest == Tail(t_work)
TWalking == t_pc = "walk" /\ t_work # <<>>

\* TaintTracker::new followed by analyze_function up to the visit of the body
analyze_function ==
    /\ t_pc = "new"
    /\ variables' = set_status(seed_args(variables, func.inputs), "ctx", "Tainted")
    /\ t_work' = VStmts(func.stmts)
    /\ t_pc' = "walk"
    /\ TaintOnly
    /\ UNCHANGED <<func, flows, current_line>>

\* A visit_stmt that hands a statement macro to the expression-macro handler.
visit_stmt_children_as_expr(s) ==
    CASE s.tag = "Local"     -> <<VLocal(s)>>
      [] s.tag = "Expr"      -> <<VExpr(s.expr)>>
      [] s.tag = "StmtMacro" -> <<VExpr(EMacro(s.mac))>>

\* syn::visit::visit_stmt, called at the end of visit_stmt: Local goes to
\* visit_local, Expr to visit_expr, Macro to visit_stmt_macro and from
\* there to visit_macro, which TaintVisitor does not override.
visit_stmt_children(s) ==
    CASE s.tag = "Local"     -> <<VLocal(s)>>
      [] s.tag = "Expr"      -> <<VExpr(s.expr)>>
      [] s.tag = "StmtMacro" -> <<VMac(s.mac)>>

\* TaintVisitor::visit_stmt
TaintVisitor_visit_stmt ==
    /\ TWalking /\ THead.k = "stmt"
    /\ current_line' = current_line + 1
    /\ t_work' = visit_stmt_children(THead.n) \o TRest
    /\ TaintOnly
    /\ UNCHANGED <<func, variables, flows, t_pc>>

\* TaintVisitor::visit_local
TaintVisitor_visit_local ==
    /\ TWalking /\ THead.k = "local"
    /\ LET local == THead.n
       IN  /\ variables' =
                IF local.init # <<>> /\ local.pat.kind = "Ident"
                THEN set_status(variables, local.pat.names[1],
                                analyze_expr(variables, local.init[1]))
                ELSE variables
           /\ t_work' = VExprs(local.init) \o TRest
    /\ TaintOnly
    /\ UNCHANGED <<func, flows, current_line, t_pc>>

\* A visit_expr_call whose transfer test lost the negation of its second half.
call_flows_no_negation(ctx, fl, node, line) ==
    LET lower == SeqMap(to_lowercase, ExprWords(node))
        fl1 == IF TextContains(lower, "transfer") /\ TextContains(lower, "transfer_checked")
               THEN record_sink(ctx, fl, node.args, "Transfer", line)
               ELSE fl
    IN  IF TextContains(lower, "invoke")
        THEN record_sink(ctx, fl1, node.args, "Invoke", line)
        ELSE fl1

\* the two sink tests of visit_expr_call, on the lower-cased text of the call
call_flows(ctx, fl, node, line) ==
    LET lower == SeqMap(to_lowercase, ExprWords(node))
        fl1 == IF TextContains(lower, "transfer") /\ ~TextContains(lower, "transfer_checked")
               THEN record_sink(ctx, fl, node.args, "Transfer", line)
               ELSE fl
    IN  IF TextContains(lower, "invoke")
        THEN record_sink(ctx, fl1, node.args, "Invoke", line)
        ELSE fl1

\* TaintVisitor::visit_expr_call
TaintVisitor_visit_expr_call ==
    /\ TWalking /\ THead.k = "expr" /\ THead.n.tag = "Call"
    /\ flows' = call_flows(variables, flows, THead.n, current_line)
    /\ t_work' = <<VExpr(THead.n.func)>> \o VExprs(THead.n.args) \o TRest
    /\ TaintOnly
    /\ UNCHANGED <<func, variables, current_line, t_pc>>

\* TaintVisitor::visit_expr_method_call: the checked_/saturating_ branch has
\* an empty body
TaintVisitor_visit_expr_method_call ==
    /\ TWalking /\ THead.k = "expr" /\ THead.n.tag = "MethodCall"
    /\ flows' = IF THead.n.method = "transfer"
                THEN record_sink(variables, flows, THead.n.args, "Transfer", current_line)
                ELSE flows
    /\ t_work' = <<VExpr(THead.n.receiver)>> \o VExprs(THead.n.args) \o TRest
    /\ TaintOnly
    /\ UNCHANGED <<func, variables, current_line, t_pc>>

\* TaintVisitor::visit_expr_macro
TaintVisitor_visit_expr_macro ==
    /\ TWalking /\ THead.k = "expr" /\ THead.n.tag = "Macro"
    /\ LET mac == THead.n.mac
           macro_name == mac.path[Len(mac.path)]
       IN  /\ variables' =
                IF macro_name \in {"require", "assert", "require_eq"}
                THEN sanitize_all(variables, extract_vars_from_str(mac.tokens)).ctx
                ELSE variables
           /\ t_work' = <<VMac(mac)>> \o TRest
    /\ TaintOnly
    /\ UNCHANGED <<func, flows, current_line, t_pc>>

\* TaintVisitor::visit_expr_if up to the visit of the else branch; the
\* condition is not visited
TaintVisitor_visit_expr_if ==
    /\ TWalking /\ THead.k = "expr" /\ THead.n.tag = "If"
    /\ LET r == sanitize_all(variables, extract_variables(THead.n.cond))
       IN  /\ variables' = r.ctx
           /\ t_work' = VStmts(THead.n.then_branch) \o <<VRestore(r.restore)>>
                          \o VExprs(THead.n.else_branch) \o TRest
    /\ TaintOnly
    /\ UNCHANGED <<func, flows, current_line, t_pc>>

\* TaintVisitor::visit_expr_if, the restore loop after the then-branch
TaintVisitor_visit_expr_if_restore ==
    /\ TWalking /\ THead.k = "restore"
    /\ variables' = restore_all(variables, THead.n.names)
    /\ t_work' = TRest
    /\ TaintOnly
    /\ UNCHANGED <<func, flows, current_line, t_pc>>

\* syn::visit for the nodes no handler overrides: the children visited
visit_children(n) ==
    CASE n.tag = "Binary" -> <<VExpr(n.left), VExpr(n.right)>>
      [] n.tag \in {"Paren", "Unary", "Try", "Cast"} -> <<VExpr(n.expr)>>
      [] n.tag = "Field"  -> <<VExpr(n.base)>>
      [] n.tag \in {"Block", "Loop"} -> VStmts(n.stmts)
      [] n.tag = "While"  -> <<VExpr(n.cond)>> \o VStmts(n.stmts)
      [] n.tag = "ForLoop" -> <<VExpr(n.expr)>> \o VStmts(n.stmts)
      [] OTHER -> <<>>

\* the default visit of every other node (paths, literals, operators,
\* blocks, the Macro of a statement or expression macro)
TaintVisitor_visit_other ==
    /\ TWalking
    /\ \/ THead.k = "macro"
       \/ THead.k = "expr" /\ THead.n.tag \notin {"Call", "MethodCall", "Macro", "If"}
    /\ t_work' = visit_children(THead.n) \o TRest
    /\ TaintOnly
    /\ UNCHANGED <<func, variables, flows, current_line, t_pc>>

\* analyze_function returns
analyze_function_return ==
    /\ t_pc = "walk" /\ t_work = <<>>
    /\ t_pc' = "done"
    /\ TaintOnly
    /\ UNCHANGED <<func, variables, flows, current_line, t_work>>

TaintIdle ==
    /\ func = ItemFn("none", <<>>, <<>>) /\ variables = EmptyMap /\ flows = <<>>
    /\ current_line = 0 /\ t_work = <<>> /\ t_pc = "idle"
ScopeIdle ==
    /\ file = <<>> /\ current_depth = 0 /\ validated_at = EmptyMap /\ usages = <<>>
    /\ s_work = <<>> /\ s_pc = "idle" /\ violations = <<>>
IndexIdle ==
    /\ structs = EmptyMap /\ accounts = EmptyMap /\ constants = EmptyMap
    /\ instructions = <<>> /\ file_cache = EmptyMap /\ indexed = <<>> /\ panicked = FALSE
ScanIdle ==
    /\ scan_files = <<>> /\ scan_pos = 0 /\ scan_context = <<>> /\ detector_runs = <<>>
    /\ scan_pc = "idle"

TaintInit ==
    /\ func \in TaintFunctions
    /\ variables = EmptyMap /\ flows = <<>> /\ current_line = 0
    /\ t_work = <<>> /\ t_pc = "new"
    /\ ScopeIdle /\ IndexIdle /\ ScanIdle

TaintNext ==
    \/ analyze_function
    \/ TaintVisitor_visit_stmt
    \/ TaintVisitor_visit_local
    \/ TaintVisitor_visit_expr_call
    \/ TaintVisitor_visit_expr_method_call
    \/ TaintVisitor_visit_expr_macro
    \/ TaintVisitor_visit_expr_if
    \/ TaintVisitor_visit_expr_if_restore
    \/ TaintVisitor_visit_other
    \/ analyze_function_return

TaintSpec == TaintInit /\ [][TaintNext]_vars

\* functions that re-bind names, inside and outside branches
\* `let amount = ctx.accounts;`
StLetCtx == StLet("amount", EField(EIdent("ctx"), "accounts"))
\* `transfer(amount + amount);`
StTransferSum == parse_stmt(TransferCall(EBinary(EIdent("amount"), "+", EIdent("amount"))), TRUE)
\* `let y = compute(amount);`
StLetCall == StLet("y", ECall(EIdent("compute"), <<EIdent("amount")>>))
\* `let y = amount.pow(2);`
StLetPow == StLet("y", EMethodCall(EIdent("amount"), "pow", <<ELitInt(2)>>))

BindThens == {<<StLet("amount", ELitInt(1))>>, <<StRequireTail>>, <<StLetCtx, StRequireTail>>,
              <<StTransfer("amount")>>}
BindElses == {<<>>, <<EBlock(<<StTransfer("amount")>>)>>, <<EBlock(<<StRequireTail>>)>>}
BindIfs   == {SExpr(EIf(c, t, e), FALSE) : c \in TaintConds, t \in BindThens, e \in BindElses}

BindStmts ==
    {StTransfer("amount"), StTransfer("y"), StTransferSum, StLetCall, StLetPow,
     StLet("y", EIdent("amount")), StLet("amount", ELitInt(1))} \cup BindIfs

\* `fn withdraw(ctx: Context<Withdraw>, amount: u64)`
BindFunctions ==
    {ItemFn("withdraw",
            <<ArgTyped(PatIdent("ctx"), <<"Context", "<", "Withdraw", ">">>),
              ArgTyped(PatIdent("amount"), <<"u64">>)>>, b) : b \in SeqsUpTo(BindStmts, MaxStmts)}

TaintBindInit ==
    /\ func \in BindFunctions
    /\ variables = EmptyMap /\ flows = <<>> /\ current_line = 0
    /\ t_work = <<>> /\ t_pc = "new"
    /\ ScopeIdle /\ IndexIdle /\ ScanIdle

TaintBindSpec == TaintBindInit /\ [][TaintNext]_vars

\* functions whose sinks sit in every position of the body
\* `transfer(amount.checked_add(1));` / `transfer(amount.saturating_sub(1));`
StTransferMath(m) ==
    parse_stmt(TransferCall(EMethodCall(EIdent("amount"), m, <<ELitInt(1)>>)), TRUE)
\* `if transfer(amount) { }`
StIfSinkCond == SExpr(EIf(TransferCall(EIdent("amount")), <<>>, <<>>), FALSE)
\* `if cond { transfer(amount); }`
StIfSinkThen == SExpr(EIf(EIdent("cond"), <<StTransfer("amount")>>, <<>>), FALSE)
\* `if cond { } else { transfer(amount); }`
StIfSinkElse == SExpr(EIf(EIdent("cond"), <<>>, <<EBlock(<<StTransfer("amount")>>)>>), FALSE)
\* `if amount > 0 { let y = amount; }`
StIfDerive ==
    SExpr(EIf(EBinary(EIdent("amount"), ">", ELitInt(0)), <<StLet("y", EIdent("amount"))>>, <<>>),
          FALSE)
\* `if cond { require!(amount > 0) }`
StIfRequire == SExpr(EIf(EIdent("cond"), <<StRequireTail>>, <<>>), FALSE)

SinkStmts ==
    {StTransfer("amount"), StTransfer("y"), StMethodTransfer,
     StTransferMath("checked_add"), StTransferMath("saturating_sub"),
     StIfSinkCond, StIfSinkThen, StIfSinkElse, StIfDerive, StIfRequire,
     StLet("y", EIdent("amount"))}

SinkFunctions ==
    {ItemFn("withdraw",
            <<ArgTyped(PatIdent("ctx"), <<"Context", "<", "Withdraw", ">">>),
              ArgTyped(PatIdent("amount"), <<"u64">>)>>, b) : b \in SeqsUpTo(SinkStmts, MaxStmts)}

TaintSinkInit ==
    /\ func \in SinkFunctions
    /\ variables = EmptyMap /\ flows = <<>> /\ current_line = 0
    /\ t_work = <<>> /\ t_pc = "new"
    /\ ScopeIdle /\ IndexIdle /\ ScanIdle

TaintSinkSpec == TaintSinkInit /\ [][TaintNext]_vars


-----------------------------------------------------------------------------
(* Scope tracker: cfg.rs *)

\* the rejected words of extract_vars_from_expr_str
ScopeStopWords == {"ctx", "accounts", "key", "unwrap", "require", "true", "false"}

keeps_word(w) == starts_alphabetic(w) /\ w \notin ScopeStopWords

\* extract_vars_from_expr_str: the words handed to the callback, in order
extract_vars_from_expr_str(words) == SelectSeq(words, keeps_word)

\* A record_validation that keeps the depth of the latest validation.
record_validation_latest(va, var, depth) ==
    [v \in (DOMAIN va) \cup {var} |-> IF v = var THEN depth ELSE va[v]]

\* ScopeTracker::record_validation at depth `depth`: entry().or_insert, then
\* lowered when the current depth is smaller
record_validation(va, var, depth) ==
    LET entry == IF var \in DOMAIN va THEN va[var] ELSE depth
    IN  [v \in (DOMAIN va) \cup {var} |->
            IF v = var THEN (IF depth < entry THEN depth ELSE entry) ELSE va[v]]

RECURSIVE record_validations(_, _, _)
record_validations(va, vs, depth) ==
    IF vs = <<>> THEN va
    ELSE record_validations(record_validation(va, Head(vs), depth), Tail(vs), depth)

\* ScopeTracker::record_usage: (var, line, usage_scope)
record_usage(us, var, line, depth) ==
    Append(us, [var |-> var, line |-> line, depth |-> depth])

RECURSIVE record_usages(_, _, _)
record_usages(us, vs, depth) ==
    IF vs = <<>> THEN us
    ELSE record_usages(record_usage(us, Head(vs), 0, depth), Tail(vs), depth)

\* the (var, line, message) pushed by find_scope_violations; the message is
\* the format! of var, validation_scope and usage_scope
ScopeViolation(var, line, validation_scope, usage_scope) ==
    [var |-> var, line |-> line,
     validation_scope |-> validation_scope, usage_scope |-> usage_scope]

\* A comparison that also reports a validation made at the depth of the use.
is_violation_or_equal(validation_scope, usage_scope) == validation_scope >= usage_scope

\* A comparison written the wrong way round.
is_violation_reversed(validation_scope, usage_scope) == validation_scope < usage_scope

\* `if validation_scope > *usage_scope`
is_violation(validation_scope, usage_scope) == validation_scope > usage_scope

RECURSIVE find_scope_violations(_, _)
\* ScopeTracker::find_scope_violations: the loop over usages
find_scope_violations(us, va) ==
    IF us = <<>> THEN <<>>
    ELSE LET u == Head(us)
             rest == find_scope_violations(Tail(us), va)
         IN  IF u.var \in DOMAIN va /\ is_violation(va[u.var], u.depth)
             THEN <<ScopeViolation(u.var, u.line, va[u.var], u.depth)>> \o rest
             ELSE rest

\* the scope tracker shares no state with the other engines
ScopeOnly == UNCHANGED <<taint_vars, index_vars, scan_vars>>

SHead == Head(s_work)
SRest == Tail(s_work)
SWalking == s_pc = "walk" /\ s_work # <<>>

\* ScopeTracker::new and analyze: visit_file visits the body of every fn item
ScopeTracker_analyze ==
    /\ s_pc = "new"
    /\ s_work' = Flatten([i \in 1..Len(file) |-> VStmts(file[i].stmts)])
    /\ s_pc' = "walk"
    /\ ScopeOnly
    /\ UNCHANGED <<file, current_depth, validated_at, usages, violations>>

\* syn::visit::visit_stmt and visit_local, which ScopeTracker does not override
ScopeTracker_visit_stmt ==
    /\ SWalking /\ SHead.k = "stmt"
    /\ s_work' = (CASE SHead.n.tag = "Local"     -> VExprs(SHead.n.init)
                    [] SHead.n.tag = "Expr"      -> <<VExpr(SHead.n.expr)>>
                    [] SHead.n.tag = "StmtMacro" -> <<VMac(SHead.n.mac)>>) \o SRest
    /\ ScopeOnly
    /\ UNCHANGED <<file, current_depth, validated_at, usages, s_pc, violations>>

\* ScopeTracker::visit_expr_if up to the first increment
ScopeTracker_visit_expr_if ==
    /\ SWalking /\ SHead.k = "expr" /\ SHead.n.tag = "If"
    /\ s_work' = <<VExpr(SHead.n.cond), VEnter>> \o VStmts(SHead.n.then_branch) \o <<VLeave>>
                   \o (IF SHead.n.else_branch = <<>> THEN <<>>
                       ELSE <<VEnter>> \o VExprs(SHead.n.else_branch) \o <<VLeave>>)
                   \o SRest
    /\ ScopeOnly
    /\ UNCHANGED <<file, current_depth, validated_at, usages, s_pc, violations>>

\* `self.current_depth += 1` before a branch of visit_expr_if, or before the
\* body of visit_expr_for_loop / visit_expr_while
ScopeTracker_enter ==
    /\ SWalking /\ SHead.k = "enter"
    /\ current_depth' = current_depth + 1
    /\ s_work' = SRest
    /\ ScopeOnly
    /\ UNCHANGED <<file, validated_at, usages, s_pc, violations>>

\* A leave that forgets the decrement.
ScopeTracker_leave_skip ==
    /\ SWalking /\ SHead.k = "leave"
    /\ s_work' = SRest
    /\ ScopeOnly
    /\ UNCHANGED <<file, current_depth, validated_at, usages, s_pc, violations>>

\* `self.current_depth -= 1` after a branch or body
ScopeTracker_leave ==
    /\ SWalking /\ SHead.k = "leave"
    /\ current_depth' = current_depth - 1
    /\ s_work' = SRest
    /\ ScopeOnly
    /\ UNCHANGED <<file, validated_at, usages, s_pc, violations>>

\* ScopeTracker::visit_expr_loop and visit_expr_block up to the visit of the body
ScopeTracker_visit_expr_loop_block ==
    /\ SWalking /\ SHead.k = "expr" /\ SHead.n.tag \in {"Loop", "Block"}
    /\ current_depth' = current_depth + 1
    /\ s_work' = VStmts(SHead.n.stmts) \o <<VLeave>> \o SRest
    /\ ScopeOnly
    /\ UNCHANGED <<file, validated_at, usages, s_pc, violations>>

\* ScopeTracker::visit_expr_for_loop and visit_expr_while: the iterator or
\* the condition is visited at the outer depth
ScopeTracker_visit_expr_for_while ==
    /\ SWalking /\ SHead.k = "expr" /\ SHead.n.tag \in {"ForLoop", "While"}
    /\ s_work' = <<VExpr(IF SHead.n.tag = "While" THEN SHead.n.cond ELSE SHead.n.expr), VEnter>>
                   \o VStmts(SHead.n.stmts) \o <<VLeave>> \o SRest
    /\ ScopeOnly
    /\ UNCHANGED <<file, current_depth, validated_at, usages, s_pc, violations>>

\* ScopeTracker::visit_macro, reached from a statement or an expression
\* macro: `quote!(#mac.path)` prints the whole invocation followed by `. path`
ScopeTracker_visit_macro ==
    /\ SWalking
    /\ \/ SHead.k = "macro"
       \/ SHead.k = "expr" /\ SHead.n.tag = "Macro"
    /\ LET mac == SHead.n.mac
           path_str == mac.path \o mac.tokens \o <<"path">>
       IN  validated_at' =
                IF TextContains(path_str, "require") \/ TextContains(path_str, "assert")
                THEN record_validations(validated_at,
                                        extract_vars_from_expr_str(mac.tokens), current_depth)
                ELSE validated_at
    /\ s_work' = SRest
    /\ ScopeOnly
    /\ UNCHANGED <<file, current_depth, usages, s_pc, violations>>

RECURSIVE call_usages(_, _, _)
\* `for arg in &i.args { extract_vars_from_expr_str(arg_str, record_usage) }`
call_usages(us, args, depth) ==
    IF args = <<>> THEN us
    ELSE call_usages(record_usages(us, extract_vars_from_expr_str(ExprWords(Head(args))), depth),
                     Tail(args), depth)

\* ScopeTracker::visit_expr_call: `quote!(#i.func)` prints the whole call
\* followed by `. func`
ScopeTracker_visit_expr_call ==
    /\ SWalking /\ SHead.k = "expr" /\ SHead.n.tag = "Call"
    /\ LET func_name == ExprWords(SHead.n) \o <<"func">>
       IN  usages' =
                IF \/ TextContains(func_name, "transfer")
                   \/ TextContains(func_name, "invoke")
                   \/ TextContains(func_name, "burn")
                THEN call_usages(usages, SHead.n.args, current_depth)
                ELSE usages
    /\ s_work' = <<VExpr(SHead.n.func)>> \o VExprs(SHead.n.args) \o SRest
    /\ ScopeOnly
    /\ UNCHANGED <<file, current_depth, validated_at, s_pc, violations>>

\* ScopeTracker::visit_expr_method_call: `quote!(#i.receiver)` prints the
\* whole method call followed by `. receiver`
ScopeTracker_visit_expr_method_call ==
    /\ SWalking /\ SHead.k = "expr" /\ SHead.n.tag = "MethodCall"
    /\ usages' =
            IF SHead.n.method \in {"borrow_mut", "try_borrow_mut"}
            THEN record_usages(usages,
                    extract_vars_from_expr_str(ExprWords(SHead.n) \o <<"receiver">>),
                    current_depth)
            ELSE usages
    /\ s_work' = <<VExpr(SHead.n.receiver)>> \o VExprs(SHead.n.args) \o SRest
    /\ ScopeOnly
    /\ UNCHANGED <<file, current_depth, validated_at, s_pc, violations>>

\* the default visit of the remaining expressions
ScopeTracker_visit_other ==
    /\ SWalking /\ SHead.k = "expr"
    /\ SHead.n.tag \in {"Path", "Lit", "Binary", "Paren", "Unary", "Try", "Cast", "Field"}
    /\ s_work' = visit_children(SHead.n) \o SRest
    /\ ScopeOnly
    /\ UNCHANGED <<file, current_depth, validated_at, usages, s_pc, violations>>

\* analyze returns
ScopeTracker_analyze_return ==
    /\ s_pc = "walk" /\ s_work = <<>>
    /\ s_pc' = "walked"
    /\ ScopeOnly
    /\ UNCHANGED <<file, current_depth, validated_at, usages, s_work, violations>>

\* the caller's `tracker.find_scope_violations()`
ScopeTracker_find_scope_violations ==
    /\ s_pc = "walked"
    /\ violations' = find_scope_violations(usages, validated_at)
    /\ s_pc' = "done"
    /\ ScopeOnly
    /\ UNCHANGED <<file, current_depth, validated_at, usages, s_work>>


-----------------------------------------------------------------------------
(* Inputs of the scope tracker *)

\* `token::transfer(ctx, amount);`
ScTransfer == parse_stmt(ECall(EPath(<<"token", "transfer">>),
                               <<EIdent("ctx"), EIdent("amount")>>), TRUE)
\* `transfer(amount + amount);`
ScTransferTwice ==
    parse_stmt(TransferCall(EBinary(EIdent("amount"), "+", EIdent("amount"))), TRUE)
\* `vault.borrow_mut();`
ScBorrow == parse_stmt(EMethodCall(EIdent("vault"), "borrow_mut", <<>>), TRUE)

ScopeAtoms == {StRequire, ScTransfer, ScTransferTwice, ScBorrow}
ScopeConds == {EIdent("cond"), EBinary(EIdent("amount"), ">", ELitInt(0))}
ScopeBranches == {<<StRequire>>, <<ScTransfer>>}
ScopeElses == {<<>>} \cup {<<EBlock(b)>> : b \in ScopeBranches}
ScopeIfs ==
    {SExpr(EIf(c, t, e), FALSE) : c \in ScopeConds, t \in ScopeBranches, e \in ScopeElses}
ScopeNests ==
    {SExpr(ELoop(<<ScTransfer>>), FALSE),
     SExpr(EWhile(EIdent("cond"), <<StRequire>>), FALSE),
     SExpr(EForLoop(PatIdent("i"), EIdent("items"), <<ScTransfer>>), FALSE),
     SExpr(EBlock(<<StRequire>>), FALSE)}
ScopeStmts == ScopeAtoms \cup ScopeIfs \cup ScopeNests

ScopeFiles == {<<ItemFn("f", <<>>, b)>> : b \in SeqsUpTo(ScopeStmts, MaxScopeStmts)}

ScopeInit ==
    /\ file \in ScopeFiles
    /\ current_depth = 0 /\ validated_at = EmptyMap /\ usages = <<>>
    /\ s_work = <<>> /\ s_pc = "new" /\ violations = <<>>
    /\ TaintIdle /\ IndexIdle /\ ScanIdle

ScopeNext ==
    \/ ScopeTracker_analyze
    \/ ScopeTracker_visit_stmt
    \/ ScopeTracker_visit_expr_if
    \/ ScopeTracker_enter
    \/ ScopeTracker_leave
    \/ ScopeTracker_visit_expr_loop_block
    \/ ScopeTracker_visit_expr_for_while
    \/ ScopeTracker_visit_macro
    \/ ScopeTracker_visit_expr_call
    \/ ScopeTracker_visit_expr_method_call
    \/ ScopeTracker_visit_other
    \/ ScopeTracker_analyze_return
    \/ ScopeTracker_find_scope_violations

ScopeSpec == ScopeInit /\ [][ScopeNext]_vars

\* files of two functions: ScopeValidationDetector::detect hands the whole
\* file to one tracker.  `fn f` validates, validates in a branch, or uses.
ScopeFirstBodies ==
    {<<StRequire>>, <<SExpr(EIf(EIdent("cond"), <<StRequire>>, <<>>), FALSE)>>, <<ScTransfer>>}
ScopeFilesOfTwo ==
    {<<ItemFn("f", <<>>, b1), ItemFn("g", <<>>, b2)>> :
        b1 \in ScopeFirstBodies, b2 \in SeqsUpTo(ScopeStmts, MaxScopeStmts)}

ScopeFileInit ==
    /\ file \in ScopeFilesOfTwo
    /\ current_depth = 0 /\ validated_at = EmptyMap /\ usages = <<>>
    /\ s_work = <<>> /\ s_pc = "new" /\ violations = <<>>
    /\ TaintIdle /\ IndexIdle /\ ScanIdle

ScopeFileSpec == ScopeFileInit /\ [][ScopeNext]_vars

\* bodies that nest ifs, else-ifs, loops and blocks two levels deep
NestLeaves == {StRequire, ScTransfer}
\* every construct with a depth of its own, around the statements of S
NestOver(S) ==
    {SExpr(EIf(EIdent("cond"), <<t>>, <<>>), FALSE) : t \in S}
    \cup {SExpr(EIf(EIdent("cond"), <<t>>, <<EBlock(<<e>>)>>), FALSE) : t \in S, e \in S}
    \cup {SExpr(EIf(EIdent("cond"), <<t>>, <<EIf(EIdent("cond"), <<e>>, <<>>)>>), FALSE) :
               t \in S, e \in S}
    \cup {SExpr(ELoop(<<t>>), FALSE) : t \in S}
    \cup {SExpr(EWhile(EIdent("cond"), <<t>>), FALSE) : t \in S}
    \cup {SExpr(EForLoop(PatIdent("i"), EIdent("items"), <<t>>), FALSE) : t \in S}
    \cup {SExpr(EBlock(<<t>>), FALSE) : t \in S}
NestOnce  == NestOver(NestLeaves)
NestTwice == NestOver(NestLeaves \cup NestOnce)
NestFiles ==
    {<<ItemFn("f", <<>>, <<st>>)>> : st \in NestOnce \cup NestTwice}
    \cup {<<ItemFn("f", <<>>, <<ScBorrow, st>>)>> : st \in NestOnce}

ScopeNestInit ==
    /\ file \in NestFiles
    /\ current_depth = 0 /\ validated_at = EmptyMap /\ usages = <<>>
    /\ s_work = <<>> /\ s_pc = "new" /\ violations = <<>>
    /\ TaintIdle /\ IndexIdle /\ ScanIdle

ScopeNestSpec == ScopeNestInit /\ [][ScopeNext]_vars


-----------------------------------------------------------------------------
(* Program index: context.rs *)

None == <<>>
Some(x) == <<x>>

\* i128::MAX, the largest value base10_parse::<i128> accepts.  The width is
\* scaled down from 128 bits so that the values fit the checker's integers.
I128_MAX == 1023

\* items of a syn::File
ItemStruct(name, attrs, named, fields) ==
    [tag |-> "Struct", name |-> name, attrs |-> attrs, named |-> named, fields |-> fields]
ItemConst(name, ty, e) == [tag |-> "Const", name |-> name, ty |-> ty, expr |-> e]
\* content is <<>> for `mod m;` and <<items>> for `mod m { items }`
ItemMod(name, content) == [tag |-> "Mod", name |-> name, content |-> content]
\* a named field: its identifier and its printed tokens
Field(ident, tokens) == [ident |-> ident, tokens |-> tokens]
\* a source text: whether syn::parse_file accepts it, and the items it holds
Source(parse_ok, items) == [parse_ok |-> parse_ok, items |-> items]

\* An insert that keeps the value a key already has (entry().or_insert).
MapPutIfAbsent(m, key, val) ==
    [x \in (DOMAIN m) \cup {key} |-> IF x \in DOMAIN m THEN m[x] ELSE val]

\* HashMap::insert
MapPut(m, key, val) == [x \in (DOMAIN m) \cup {key} |-> IF x = key THEN val ELSE m[x]]

ProgramContext(st, ac, co, ins, fc, pn) ==
    [structs |-> st, accounts |-> ac, constants |-> co, instructions |-> ins,
     file_cache |-> fc, panicked |-> pn]

RECURSIVE struct_fields(_, _)
\* the field loop of index_struct: `quote!(#field.ty)` prints the whole
\* field followed by `. ty`
struct_fields(m, fields) ==
    IF fields = <<>> THEN m
    ELSE struct_fields(MapPut(m, Head(fields).ident, Head(fields).tokens \o <<".", "ty">>),
                       Tail(fields))

\* ProgramContext::index_struct
index_struct(pc, path, s) ==
    LET info == [name |-> s.name, file |-> path,
                 fields |-> IF s.named THEN struct_fields(EmptyMap, s.fields) ELSE EmptyMap,
                 is_account |-> \E i \in 1..Len(s.attrs) : TextContains(s.attrs[i], "account"),
                 is_accounts_context |->
                     \E i \in 1..Len(s.attrs) :
                         TextContains(s.attrs[i], "derive") /\ TextContains(s.attrs[i], "Accounts")]
    IN  [pc EXCEPT !.accounts = IF info.is_account THEN MapPut(pc.accounts, s.name, info)
                                ELSE pc.accounts,
                   !.structs = MapPut(pc.structs, s.name, info)]

RECURSIVE extract_numeric_value_no_neg(_)
\* An extract_numeric_value whose unary arm forgets to negate.
extract_numeric_value_no_neg(e) ==
    CASE e.tag = "Lit" ->
            IF e.kind = "Int" /\ e.value <= I128_MAX THEN Some(e.value) ELSE None
      [] e.tag \in {"Cast", "Paren"} -> extract_numeric_value_no_neg(e.expr)
      [] e.tag = "Unary" ->
            IF e.op = "-" THEN extract_numeric_value_no_neg(e.expr) ELSE None
      [] OTHER -> None

RECURSIVE extract_numeric_value(_)
\* ProgramContext::extract_numeric_value; base10_parse::<i128>().ok() is None
\* for a literal above i128::MAX
extract_numeric_value(e) ==
    CASE e.tag = "Lit" ->
            IF e.kind = "Int" /\ e.value <= I128_MAX THEN Some(e.value) ELSE None
      [] e.tag \in {"Cast", "Paren"} -> extract_numeric_value(e.expr)
      [] e.tag = "Unary" ->
            IF e.op = "-"
            THEN LET v == extract_numeric_value(e.expr)
                 IN  IF v = None THEN None ELSE Some(0 - v[1])
            ELSE None
      [] OTHER -> None

\* ProgramContext::index_constant; value_str prints the whole item followed
\* by `. expr` and is kept as the item it prints
index_constant(pc, c) ==
    [pc EXCEPT !.constants =
        MapPut(pc.constants, c.name,
               [name |-> c.name, value |-> extract_numeric_value(c.expr),
                value_str |-> [item |-> c, suffix |-> <<".", "expr">>]])]

\* str::find('<') and str::rfind('>') over the tokens of a printed type
has_lt(tok) == tok = "<"
has_gt(tok) == tok \in {">", "->"}
find_lt(toks) == {i \in 1..Len(toks) : has_lt(toks[i]) /\ \A j \in 1..(i - 1) : ~has_lt(toks[j])}
rfind_gt(toks) ==
    {i \in 1..Len(toks) : has_gt(toks[i]) /\ \A j \in (i + 1)..Len(toks) : ~has_gt(toks[j])}

RECURSIVE index_function_args(_, _)
\* the argument loop of index_function: info.args, info.context_type and
\* whether the slice `arg_type[start+1..end]` panicked
index_function_args(acc, inputs) ==
    IF inputs = <<>> \/ acc.panicked THEN acc
    ELSE LET arg == Head(inputs)
         IN  IF arg.kind = "Typed" /\ arg.pat.kind = "Ident"
             THEN LET arg_name == arg.pat.names[1]
                      arg_type == <<arg_name, ":">> \o arg.ty \o <<".", "ty">>
                      lt == find_lt(arg_type)
                      gt == rfind_gt(arg_type)
                      sliced == TextContains(arg_type, "Context") /\ lt # {} /\ gt # {}
                      start == CHOOSE i \in lt : TRUE
                      end == CHOOSE i \in gt : TRUE
                  IN  IF sliced /\ start > end
                      THEN [acc EXCEPT !.panicked = TRUE]
                      ELSE index_function_args(
                              [acc EXCEPT !.args = MapPut(acc.args, arg_name, arg_type),
                                          !.context_type =
                                              IF sliced
                                              THEN Some(SubSeq(arg_type, start + 1, end - 1)
                                                        \o (IF arg_type[end] = "->" THEN <<"-">> ELSE <<>>))
                                              ELSE acc.context_type],
                              Tail(inputs))
             ELSE index_function_args(acc, Tail(inputs))

\* ProgramContext::index_function
index_function(pc, path, f) ==
    LET r == index_function_args([args |-> EmptyMap, context_type |-> None, panicked |-> FALSE],
                                 f.inputs)
        info == [name |-> f.name, file |-> path, args |-> r.args,
                 context_type |-> r.context_type, line |-> 0]
    IN  IF r.panicked THEN [pc EXCEPT !.panicked = TRUE]
        ELSE IF r.context_type # None
             THEN [pc EXCEPT !.instructions = Append(pc.instructions, info)]
             ELSE pc

RECURSIVE index_mod_items(_, _, _)
\* An Item::Mod arm that also indexes the constants of the module.
index_mod_items(pc, path, items) ==
    IF items = <<>> THEN pc
    ELSE index_mod_items(
            CASE Head(items).tag = "Struct" -> index_struct(pc, path, Head(items))
              [] Head(items).tag = "Const"  -> index_constant(pc, Head(items))
              [] OTHER -> pc,
            path, Tail(items))

RECURSIVE index_mod_structs(_, _, _)
\* the Item::Mod arm of extract_from_file: only struct items of the content
index_mod_structs(pc, path, items) ==
    IF items = <<>> THEN pc
    ELSE index_mod_structs(
            IF Head(items).tag = "Struct" THEN index_struct(pc, path, Head(items)) ELSE pc,
            path, Tail(items))

RECURSIVE extract_from_file(_, _, _)
\* ProgramContext::extract_from_file: the loop over file.items
extract_from_file(pc, path, items) ==
    IF items = <<>> \/ pc.panicked THEN pc
    ELSE LET item == Head(items)
             next ==
                CASE item.tag = "Struct" -> index_struct(pc, path, item)
                  [] item.tag = "Const"  -> index_constant(pc, item)
                  [] item.tag = "Fn"     -> index_function(pc, path, item)
                  [] item.tag = "Mod"    ->
                        IF item.content # <<>>
                        THEN index_mod_structs(pc, path, item.content[1])
                        ELSE pc
                  [] OTHER -> pc
         IN  extract_from_file(next, path, Tail(items))

\* An index_file that rebuilds the struct map from the file it is given.
index_file_reset(pc, path, source) ==
    LET cached == [pc EXCEPT !.file_cache = MapPut(pc.file_cache, path, source),
                             !.structs = EmptyMap]
    IN  IF source.parse_ok THEN extract_from_file(cached, path, source.items) ELSE cached

\* An index_file that unwraps the result of syn::parse_file.
index_file_unwrap(pc, path, source) ==
    LET cached == [pc EXCEPT !.file_cache = MapPut(pc.file_cache, path, source)]
    IN  IF source.parse_ok THEN extract_from_file(cached, path, source.items)
        ELSE [cached EXCEPT !.panicked = TRUE]

\* ProgramContext::index_file
index_file(pc, path, source) ==
    LET cached == [pc EXCEPT !.file_cache = MapPut(pc.file_cache, path, source)]
    IN  IF source.parse_ok THEN extract_from_file(cached, path, source.items) ELSE cached

\* ProgramContext::resolve_struct
resolve_struct(pc, name) == IF name \in DOMAIN pc.structs THEN Some(pc.structs[name]) ELSE None

\* ProgramContext::get_account_field_type
get_account_field_type(pc, struct_name, field_name) ==
    IF struct_name \in DOMAIN pc.structs /\ field_name \in DOMAIN pc.structs[struct_name].fields
    THEN Some(pc.structs[struct_name].fields[field_name])
    ELSE None

\* ProgramContext::resolve_constant
resolve_constant(pc, name) ==
    IF name \in DOMAIN pc.constants THEN pc.constants[name].value ELSE None

\* ProgramContext::get_instructions
get_instructions(pc) == pc.instructions

\* ProgramContext::new
EmptyContext == ProgramContext(EmptyMap, EmptyMap, EmptyMap, <<>>, EmptyMap, FALSE)

RECURSIVE IndexAll(_, _)
\* `for f in files { ctx.index_file(f.path, f.source) }`
IndexAll(pc, files) ==
    IF files = <<>> \/ pc.panicked THEN pc
    ELSE IndexAll(index_file(pc, Head(files).path, Head(files).source), Tail(files))

\* the ProgramContext of the current state
Context == ProgramContext(structs, accounts, constants, instructions, file_cache, panicked)

\* one `ctx.index_file(path, source)` of the caller, by its effect on the context
IndexCall(path, source) ==
    /\ ~panicked
    /\ LET pc == index_file(Context, path, source)
       IN  /\ structs' = pc.structs
           /\ accounts' = pc.accounts
           /\ constants' = pc.constants
           /\ instructions' = pc.instructions
           /\ file_cache' = pc.file_cache
           /\ panicked' = pc.panicked


-----------------------------------------------------------------------------
(* Inputs of the program index *)

VaultFields == <<Field("owner", <<"pub", "owner", ":", "Pubkey">>),
                 Field("balance", <<"pub", "balance", ":", "u64">>)>>

\* a.rs: `#[account] pub struct Vault {..}`, `pub const MAX_USERS: u64 = 1000;`,
\*       `pub fn withdraw(ctx: Context<Withdraw>, amount: u64)`
FileA == [path |-> "a.rs", source |-> Source(TRUE,
    <<ItemStruct("Vault", <<(<<"account">>)>>, TRUE, VaultFields),
      ItemConst("MAX_USERS", "u64", ELitInt(1000)),
      ItemFn("withdraw", <<ArgTyped(PatIdent("ctx"), <<"Context", "<", "Withdraw", ">">>),
                           ArgTyped(PatIdent("amount"), <<"u64">>)>>, <<>>)>>)]
\* b.rs: a plain `pub struct Vault {..}`, `const MAX_USERS: u64 = compute();`,
\*       `fn helper(x: u64)`
FileB == [path |-> "b.rs", source |-> Source(TRUE,
    <<ItemStruct("Vault", <<(<<"derive", "Clone">>)>>, TRUE,
                 <<Field("owner", <<"pub", "owner", ":", "Pubkey">>)>>),
      ItemConst("MAX_USERS", "u64", ECall(EIdent("compute"), <<>>)),
      ItemFn("helper", <<ArgTyped(PatIdent("x"), <<"u64">>)>>, <<>>)>>)]
\* c.rs: `#[derive(Accounts)] pub struct Withdraw {..}` and
\*       `mod state { #[account] pub struct Config {..}  const HIDDEN: u64 = 1;
\*                    fn inner(ctx: Context<Withdraw>) {}
\*                    mod deep { pub struct Deep {..} } }`
FileC == [path |-> "c.rs", source |-> Source(TRUE,
    <<ItemStruct("Withdraw", <<(<<"derive", "Accounts">>)>>, TRUE,
                 <<Field("vault", <<"pub", "vault", ":", "Account", "<", "Vault", ">">>)>>),
      ItemMod("state",
              <<(<<ItemStruct("Config", <<(<<"account">>)>>, TRUE,
                              <<Field("admin", <<"pub", "admin", ":", "Pubkey">>)>>),
                   ItemConst("HIDDEN", "u64", ELitInt(1)),
                   ItemFn("inner",
                          <<ArgTyped(PatIdent("ctx"), <<"Context", "<", "Withdraw", ">">>)>>, <<>>),
                   ItemMod("deep",
                           <<(<<ItemStruct("Deep", <<>>, TRUE,
                                           <<Field("n", <<"pub", "n", ":", "u64">>)>>)>>)>>)>>)>>)>>)]
\* a.rs after an edit: Vault is no longer an account, and is a tuple struct
FileA2 == [path |-> "a.rs", source |-> Source(TRUE,
    <<ItemStruct("Vault", <<>>, FALSE, <<>>),
      ItemConst("MAX_USERS", "u64", EUnary("-", EParen(ECast(ELitInt(30), "i64"))))>>)]
\* d.rs: a plain struct whose doc comment reads `/// per-user account note`
FileD == [path |-> "d.rs", source |-> Source(TRUE,
    <<ItemStruct("Note", <<(<<"doc", "per", "user", "account", "note">>)>>, TRUE,
                 <<Field("text", <<"pub", "text", ":", "String">>)>>)>>)]
\* bad.rs: a text syn::parse_file rejects
FileBad == [path |-> "bad.rs", source |-> Source(FALSE, <<>>)]

IndexFiles == {FileA, FileB, FileC, FileA2, FileD, FileBad}

\* one index_file call of pass 1
IndexFile ==
    /\ Len(indexed) < MaxIndexCalls
    /\ \E f \in IndexFiles :
          /\ IndexCall(f.path, f.source)
          /\ indexed' = Append(indexed, f)
    /\ UNCHANGED <<taint_vars, scope_vars, scan_vars>>

IndexInit ==
    /\ structs = EmptyMap /\ accounts = EmptyMap /\ constants = EmptyMap
    /\ instructions = <<>> /\ file_cache = EmptyMap /\ indexed = <<>> /\ panicked = FALSE
    /\ TaintIdle /\ ScopeIdle /\ ScanIdle

IndexNext == IndexFile

IndexSpec == IndexInit /\ [][IndexNext]_vars

(* Initializers of constants: an operand wrapped at most MaxWrap times *)

ConstOperands ==
    {ELitInt(30), ELitInt(I128_MAX), ELitInt(I128_MAX + 1), ELitStr("s"),
     ECall(EIdent("compute"), <<>>)}

Wrappings(e) == {EParen(e), ECast(e, "u64"), EUnary("-", e), EUnary("!", e)}

RECURSIVE WrappedUpTo(_)
WrappedUpTo(n) ==
    IF n = 0 THEN ConstOperands
    ELSE LET inner == WrappedUpTo(n - 1) IN inner \cup UNION {Wrappings(e) : e \in inner}

ConstExprs == WrappedUpTo(MaxWrap)

\* the constants of the indexed files and the file that defines each
ConstNames == {"MAX", "FEE"}
ConstPath(name) == IF name = "MAX" THEN "max.rs" ELSE "fee.rs"

\* the initializers tried for each constant
ConstExprsOf(name) == IF name = "MAX" THEN ConstExprs ELSE ConstOperands

\* index_file on a file that holds `const <name>: u64 = <e>;`
IndexConstFile ==
    /\ \E name \in ConstNames :
          \E e \in ConstExprsOf(name) :
              IndexCall(ConstPath(name), Source(TRUE, <<ItemConst(name, "u64", e)>>))
    /\ UNCHANGED <<indexed, taint_vars, scope_vars, scan_vars>>

ConstNext == IndexConstFile

ConstSpec == IndexInit /\ [][ConstNext]_vars


-----------------------------------------------------------------------------
(* The scan driver: main.rs, parser/mod.rs, detectors/mod.rs *)

\* AnalysisContext, by the fields the analyses read
AnalysisContext(file_path, ast, program_context) ==
    [file_path |-> file_path, ast |-> ast, program_context |-> program_context]

\* parse_anchor_files / AnalysisContext::from_source: Err when syn::parse_file
\* rejects the text, else a context whose program_context is None
from_source(f) ==
    IF f.source.parse_ok THEN Some(AnalysisContext(f.path, f.source.items, None)) ELSE None

\* the scan driver shares no state with the engines
ScanOnly == UNCHANGED <<taint_vars, scope_vars, index_vars>>

\* perform_scan up to its loop: an empty `files` returns at once
perform_scan ==
    /\ scan_pc = "start"
    /\ scan_pc' = IF scan_files = <<>> THEN "done" ELSE "loop"
    /\ ScanOnly
    /\ UNCHANGED <<scan_files, scan_pos, scan_context, detector_runs>>

\* `match parse_anchor_files(file_path)`: on Err the file is logged and skipped
parse_anchor_files ==
    /\ scan_pc = "loop" /\ scan_pos < Len(scan_files)
    /\ LET r == from_source(scan_files[scan_pos + 1])
       IN  IF r = None
           THEN /\ scan_pos' = scan_pos + 1
                /\ UNCHANGED <<scan_context, scan_pc>>
           ELSE /\ scan_context' = r
                /\ scan_pc' = "parsed"
                /\ UNCHANGED scan_pos
    /\ ScanOnly
    /\ UNCHANGED <<scan_files, detector_runs>>

\* `registry.run_all(&context)`: every detector runs on the file's context
DetectorRegistry_run_all ==
    /\ scan_pc = "parsed"
    /\ detector_runs' = Append(detector_runs,
                               [file_path |-> scan_context[1].file_path,
                                program_context |-> scan_context[1].program_context])
    /\ scan_context' = None
    /\ scan_pos' = scan_pos + 1
    /\ scan_pc' = "loop"
    /\ ScanOnly
    /\ UNCHANGED scan_files

\* perform_scan returns the findings
perform_scan_return ==
    /\ scan_pc = "loop" /\ scan_pos = Len(scan_files)
    /\ scan_pc' = "done"
    /\ ScanOnly
    /\ UNCHANGED <<scan_files, scan_pos, scan_context, detector_runs>>

\* the files a scan can collect: different paths, in any order
ScanFileSet == {FileA, FileB, FileC, FileBad}
ScanFileLists ==
    {fs \in SeqsUpTo(ScanFileSet, MaxScanFiles) :
        \A i, j \in 1..Len(fs) : i # j => fs[i].path # fs[j].path}

ScanInit ==
    /\ scan_files \in ScanFileLists
    /\ scan_pos = 0 /\ scan_context = None /\ detector_runs = <<>> /\ scan_pc = "start"
    /\ TaintIdle /\ ScopeIdle /\ IndexIdle

ScanNext ==
    \/ perform_scan
    \/ parse_anchor_files
    \/ DetectorRegistry_run_all
    \/ perform_scan_return

ScanSpec == ScanInit /\ [][ScanNext]_vars


-----------------------------------------------------------------------------
(* Properties of the taint tracker, checked under TaintSpec *)

\* `amount` is a parameter the signature binds by a plain identifier
AmountIsParam ==
    \E i \in 1..Len(func.inputs) :
        /\ func.inputs[i].kind = "Typed"
        /\ func.inputs[i].pat = PatIdent("amount")

Analyzed(body) == t_pc = "done" /\ AmountIsParam /\ func.stmts = body

\* C1: for a function with parameter `amount` whose body is the single call
\* `transfer(amount)`, the flow list after analyze_function holds exactly one
\* flow, with sink Transfer and variable `amount`.
C1_TransferAloneOneFlow ==
    Analyzed(<<StTransfer("amount")>>)
        => flows = <<TaintedFlow("amount", "Transfer", 1)>>

C1_Witness ==
    /\ Analyzed(<<StTransfer("amount")>>)
    /\ Len(flows) = 1 /\ flows[1].variable = "amount" /\ flows[1].sink = "Transfer"

\* C2: for a function with parameter `amount` whose body is
\* `require!(amount > 0); transfer(amount);`, the flow list after
\* analyze_function is empty.
C2_RequireThenTransferNoFlow ==
    Analyzed(<<StRequire, StTransfer("amount")>>) => flows = <<>>

\* `if cond { require!(amount > 0); }`
IfCondRequire == SExpr(EIf(EIdent("cond"), <<StRequire>>, <<>>), FALSE)

ParamNames ==
    UNION {{func.inputs[i].pat.names[j] : j \in 1..Len(func.inputs[i].pat.names)} :
              i \in 1..Len(func.inputs)}

TaintNames == {"amount", "y", "ctx", "cond", "to"}

\* the state analyze_function has seeded, before any statement is visited
Seeded == t_pc = "walk" /\ current_line = 0 /\ t_work = VStmts(func.stmts)

\* C7: once analyze_function has seeded the state and before any statement of
\* the body is visited, every formal parameter is Tainted, the context receiver
\* `ctx` is Tainted, and every other name reads as Unknown.
C7_SeededStatuses ==
    Seeded =>
        /\ \A p \in ParamNames : get_status(variables, p) = "Tainted"
        /\ get_status(variables, "ctx") = "Tainted"
        /\ \A n \in TaintNames \ (ParamNames \cup {"ctx"}) :
              get_status(variables, n) = "Unknown"

\* C8: a visit appends a flow for a name only if the name's status when the
\* visit starts is exactly Tainted; flows already recorded stay as they are,
\* so a sink whose argument names are Unknown, Clean or Sanitized leaves the
\* flow list unchanged.
C8_FlowsOnlyForTainted ==
    [][/\ IsPrefix(flows, flows')
       /\ \A i \in (Len(flows) + 1)..Len(flows') :
             get_status(variables, flows'[i].variable) = "Tainted"]_vars

\* a transfer of `y`, which nothing has bound, has been visited and no flow
\* was recorded
C8_Witness ==
    /\ Analyzed(<<StTransfer("y")>>)
    /\ get_status(variables, "y") = "Unknown"
    /\ flows = <<>>

-----------------------------------------------------------------------------
(* Properties of the scope tracker, checked under ScopeSpec *)

ScopeAnalyzed(body) == s_pc = "done" /\ file = <<ItemFn("f", <<>>, body)>>

\* `if <c> { require!(amount > 0); }` and `if <c> { token::transfer(ctx, amount); }`
IfRequire(c)  == SExpr(EIf(c, <<StRequire>>, <<>>), FALSE)
IfTransfer(c) == SExpr(EIf(c, <<ScTransfer>>, <<>>), FALSE)

\* C4: when the only validating assertion of `amount` is inside the
\* then-branch of an if of the function body and its only sensitive use is a
\* transfer call after that if, find_scope_violations returns exactly one
\* violation: `amount`, validation depth 1, usage depth 0.
C4_BranchValidationLeaks ==
    \A c \in ScopeConds :
        ScopeAnalyzed(<<IfRequire(c), ScTransfer>>)
            => violations = <<ScopeViolation("amount", 0, 1, 0)>>

C4_Witness ==
    /\ ScopeAnalyzed(<<IfRequire(EIdent("cond")), ScTransfer>>)
    /\ validated_at["amount"] = 1
    /\ usages = <<[var |-> "amount", line |-> 0, depth |-> 0]>>
    /\ Len(violations) = 1

\* C5: when `amount` is validated by an assertion directly in the function
\* body and then used in a transfer call inside a then-branch,
\* find_scope_violations returns no violation.
C5_OuterValidationCoversBranch ==
    \A c \in ScopeConds :
        ScopeAnalyzed(<<StRequire, IfTransfer(c)>>) => violations = <<>>

C5_Witness ==
    /\ ScopeAnalyzed(<<StRequire, IfTransfer(EIdent("cond"))>>)
    /\ validated_at["amount"] = 0
    /\ usages = <<[var |-> "amount", line |-> 0, depth |-> 1]>>
    /\ violations = <<>>

\* the positions of the usage list that must be reported
Reported ==
    {i \in 1..Len(usages) :
        /\ usages[i].var \in DOMAIN validated_at
        /\ validated_at[usages[i].var] > usages[i].depth}
\* the k-th reported position, in usage order
ReportedAt(k) == CHOOSE i \in Reported : Cardinality({j \in Reported : j <= i}) = k

\* C6: find_scope_violations returns, in usage order, exactly one violation
\* for each usage whose variable has a recorded validation depth strictly
\* greater than the usage depth, and nothing else.
C6_ViolationsAreTheDeeperValidatedUsages ==
    s_pc = "done" =>
        /\ Len(violations) = Cardinality(Reported)
        /\ \A k \in 1..Len(violations) :
              LET u == usages[ReportedAt(k)]
              IN  violations[k] = ScopeViolation(u.var, u.line, validated_at[u.var], u.depth)

\* two usages of one variable are both reported and a third usage is not
C6_Witness ==
    /\ s_pc = "done"
    /\ Len(violations) = 2 /\ violations[1].var = violations[2].var
    /\ Len(usages) > Len(violations)
    /\ \E i \in 1..Len(usages) :
          /\ usages[i].var \in DOMAIN validated_at
          /\ validated_at[usages[i].var] = usages[i].depth

-----------------------------------------------------------------------------
(* Properties of the program index *)

\* C9: after any sequence of index_file calls a struct name is a key of the
\* accounts map exactly when resolve_struct gives an is_account struct for it,
\* and then both maps hold the same StructInfo.  (Checked under IndexSpec.)
C9_AccountsMapMirrorsAccountStructs ==
    \A name \in (DOMAIN accounts) \cup (DOMAIN structs) :
        /\ name \in DOMAIN accounts
              <=> (name \in DOMAIN structs /\ structs[name].is_account)
        /\ name \in DOMAIN accounts => accounts[name] = resolve_struct(Context, name)[1]

RECURSIVE Operand(_), Negations(_), OnlyParenCastNeg(_)
\* what an initializer holds under its parentheses, casts and unary operators
Operand(e) == IF e.tag \in {"Paren", "Cast", "Unary"} THEN Operand(e.expr) ELSE e
\* how many of the wrapping operators are negations
Negations(e) ==
    IF e.tag \in {"Paren", "Cast"} THEN Negations(e.expr)
    ELSE IF e.tag = "Unary" THEN (IF e.op = "-" THEN 1 ELSE 0) + Negations(e.expr)
    ELSE 0
\* no wrapping operator other than parentheses, casts and negations
OnlyParenCastNeg(e) ==
    IF e.tag \in {"Paren", "Cast"} THEN OnlyParenCastNeg(e.expr)
    ELSE IF e.tag = "Unary" THEN e.op = "-" /\ OnlyParenCastNeg(e.expr)
    ELSE TRUE

IsWrappedIntLiteral(e) ==
    OnlyParenCastNeg(e) /\ Operand(e).tag = "Lit" /\ Operand(e).kind = "Int"
SignedValue(e) ==
    IF Negations(e) % 2 = 0 THEN Operand(e).value ELSE 0 - Operand(e).value

\* the initializer of the indexed definition of a constant of ConstSpec
IsIndexed(name) == ConstPath(name) \in DOMAIN file_cache
InitializerOf(name) == file_cache[ConstPath(name)].items[1].expr

-----------------------------------------------------------------------------
(* Properties of the program index over several files, under IndexSpec *)

RECURSIVE StructNamesOf(_)
\* the names of the struct items of a list of items, inline modules included
StructNamesOf(items) ==
    IF items = <<>> THEN {}
    ELSE LET item == Head(items)
         IN  (CASE item.tag = "Struct" -> {item.name}
                [] item.tag = "Mod"    ->
                      IF item.content = <<>> THEN {} ELSE StructNamesOf(item.content[1])
                [] OTHER               -> {})
             \cup StructNamesOf(Tail(items))
\* the struct names a file defines
DefinedStructs(f) == StructNamesOf(f.source.items)

\* two different files have been indexed, in the order A then B
TwoFilesIndexed == Len(indexed) = 2 /\ indexed[1].path # indexed[2].path

\* C11: for two files A and B, indexing A then B and indexing B then A give
\* the same StructInfo for every struct name that exactly one of them defines.
C11_UniqueStructsOrderIndependent ==
    TwoFilesIndexed =>
        LET A == indexed[1]
            B == indexed[2]
            swapped == IndexAll(EmptyContext, <<B, A>>)
        IN  \A name \in (DefinedStructs(A) \cup DefinedStructs(B))
                           \ (DefinedStructs(A) \cap DefinedStructs(B)) :
                resolve_struct(Context, name) = resolve_struct(swapped, name)

\* c.rs then a.rs: Vault comes from a.rs alone, Withdraw and Config from c.rs
C11_Witness ==
    /\ indexed = <<FileC, FileA>>
    /\ resolve_struct(Context, "Vault") # None
    /\ resolve_struct(Context, "Vault")[1].file = "a.rs"
    /\ resolve_struct(Context, "Config") # None
    /\ resolve_struct(Context, "Withdraw")[1].is_accounts_context

\* the names looked up: every struct, field and constant name of the files
IndexStructNames == {"Vault", "Withdraw", "Config", "Note", "Missing"}
IndexFieldNames == {"owner", "balance", "vault", "admin", "text", "missing"}
IndexConstNames == {"MAX_USERS", "HIDDEN", "MISSING"}

\* what one file alone puts in a fresh index
Alone(f) == IndexAll(EmptyContext, <<f>>)

\* the calls, in order, whose file gives the index a struct / a constant `name`
StructDefiners(name) ==
    {k \in 1..Len(indexed) : name \in DOMAIN Alone(indexed[k]).structs}
ConstDefiners(name) ==
    {k \in 1..Len(indexed) : name \in DOMAIN Alone(indexed[k]).constants}
Last(S) == CHOOSE k \in S : \A j \in S : j <= k

Parses(f) == f.source.parse_ok

\* the struct map, the accounts map, the constant map and the instruction list
IndexMaps(pc) == <<pc.structs, pc.accounts, pc.constants, pc.instructions>>

\* C13: index_file on a text that fails to parse does not raise and leaves
\* the struct map, the accounts map, the constant map and the instruction list
\* as they were, and the files indexed after it are indexed normally: the four
\* are at any time what the calls on the parseable files alone produce.
C13_UnparseableFileIsSkipped ==
    /\ IndexMaps(Context) = IndexMaps(IndexAll(EmptyContext, SelectSeq(indexed, Parses)))
    /\ (indexed # <<>> /\ ~Parses(indexed[Len(indexed)])) => ~panicked

\* a.rs, then a text that does not parse, then c.rs
C13_Witness ==
    /\ indexed = <<FileA, FileBad, FileC>>
    /\ "bad.rs" \in DOMAIN file_cache
    /\ DOMAIN structs = {"Vault", "Withdraw", "Config"}
    /\ Len(instructions) = 1
    /\ ~panicked

-----------------------------------------------------------------------------
(* Properties of the scan driver, under ScanSpec *)

\* C14: no detector run on any file of a scan starts before the program index
\* has indexed every file of the scan: each run is handed an index, and that
\* index holds every file of the scan.
C14_IndexCompleteBeforeDetectors ==
    \A k \in 1..Len(detector_runs) :
        /\ detector_runs[k].program_context # None
        /\ \A i \in 1..Len(scan_files) :
              scan_files[i].path \in DOMAIN detector_runs[k].program_context[1].file_cache

-----------------------------------------------------------------------------
(* Properties of the scope tracker over a file of two functions, under *)
(* ScopeFileSpec *)

ScopeAnalyzedFile(f, g) ==
    s_pc = "done" /\ file = <<ItemFn("f", <<>>, f), ItemFn("g", <<>>, g)>>

\* C15: what is recorded while walking one function never changes the
\* violations reported for another function of the file.  A validation of
\* `amount` in f does not suppress the violation of
\* `g { if cond { require!(amount > 0); } token::transfer(ctx, amount); }`,
\* and a branch-local validation in f does not create one for
\* `g { token::transfer(ctx, amount); }`, which validates nothing.
C15_FunctionsDoNotShareScopeState ==
    /\ ScopeAnalyzedFile(<<StRequire>>, <<IfRequire(EIdent("cond")), ScTransfer>>)
          => violations = <<ScopeViolation("amount", 0, 1, 0)>>
    /\ ScopeAnalyzedFile(<<IfRequire(EIdent("cond"))>>, <<ScTransfer>>)
          => violations = <<>>

-----------------------------------------------------------------------------
(* Properties of bindings, sanitizers and branches, under TaintBindSpec *)

RECURSIVE NamesIn(_), NamesInAll(_)
\* the variable names occurring anywhere in an expression, the arguments of
\* its calls included (the path of a called function is not a variable)
NamesIn(e) ==
    CASE e.tag = "Path"       -> {e.segs[1]}
      [] e.tag = "Binary"     -> NamesIn(e.left) \cup NamesIn(e.right)
      [] e.tag = "Call"       -> NamesInAll(e.args)
      [] e.tag = "MethodCall" -> NamesIn(e.receiver) \cup NamesInAll(e.args)
      [] e.tag = "Field"      -> NamesIn(e.base)
      [] e.tag \in {"Paren", "Unary", "Try", "Cast"} -> NamesIn(e.expr)
      [] OTHER                -> {}
NamesInAll(es) == IF es = <<>> THEN {} ELSE NamesIn(Head(es)) \cup NamesInAll(Tail(es))

\* the status the claim gives to a right-hand side
AggregateStatus(ctx, e) ==
    IF \E n \in NamesIn(e) : get_status(ctx, n) = "Tainted" THEN "Tainted"
    ELSE IF \E n \in NamesIn(e) : get_status(ctx, n) = "Unknown" THEN "Unknown"
    ELSE "Clean"

\* the next step is visit_local on `let v = <init>;`
BindsHead(v) ==
    TWalking /\ THead.k = "local" /\ THead.n.init # <<>> /\ THead.n.pat = PatIdent(v)

\* C16: a binding `name = expr` gives `name` the status Tainted if any name
\* occurring anywhere in expr is Tainted (a name passed as an argument of a
\* call inside expr included), otherwise Unknown if any occurring name is
\* Unknown, otherwise Clean.
C16_BindingTakesAggregateStatus ==
    [][\A v \in TaintNames :
          BindsHead(v) =>
              get_status(variables', v) = AggregateStatus(variables, THead.n.init[1])]_vars

\* the next step is the restore loop of an if that sanitized v
RestoresHead(v) ==
    TWalking /\ THead.k = "restore" /\ \E i \in 1..Len(THead.n.names) : THead.n.names[i] = v

\* the next step is a sanitizer: an expression macro or an if
SanitizerHead == TWalking /\ THead.k = "expr" /\ THead.n.tag \in {"Macro", "If"}

\* `if <c> { let amount = 1; }`
IfRebind(c) == SExpr(EIf(c, <<StLet("amount", ELitInt(1))>>, <<>>), FALSE)

C18_NoDuplicateFlows ==
    \A i, j \in 1..Len(flows) : flows[i] = flows[j] => i = j

\* `if <c> { let amount = ctx.accounts; require!(amount > 0) }`
IfRebindRequire(c) == SExpr(EIf(c, <<StLetCtx, StRequireTail>>, <<>>), FALSE)

\* C19 as stated: a name an assertion has turned from Tainted to Sanitized is
\* still Sanitized when the branch that encloses the assertion has been left,
\* whatever the condition of that branch.
C19_AssertionOutlivesEnclosingBranch ==
    \A c \in TaintConds :
        Analyzed(<<IfRebindRequire(c)>>) => get_status(variables, "amount") = "Sanitized"

\* C19, amended: a Sanitized name stays Sanitized at every later point unless
\* a binding of that name re-assigns it or the restore loop of an if whose
\* condition mentioned it while it was Tainted sets it Tainted; leaving any
\* other branch changes nothing.
C19_SanitizedUntilReboundOrRestored ==
    [][\A v \in TaintNames :
          get_status(variables, v) = "Sanitized" /\ get_status(variables', v) # "Sanitized"
              => BindsHead(v) \/ RestoresHead(v)]_vars

\* `if cond { require!(amount > 0) } transfer(amount);` has been analysed: the
\* assertion turned the parameter Sanitized, the branch has been left, and the
\* sink after it recorded nothing
C19_Witness ==
    /\ Analyzed(<<SExpr(EIf(EIdent("cond"), <<StRequireTail>>, <<>>), FALSE), StTransfer("amount")>>)
    /\ get_status(variables, "amount") = "Sanitized"
    /\ flows = <<>>

\* the then-branch of an if whose condition mentioned v while v was Tainted
\* is being visited: its restore loop is still to come
InsideThen(v) ==
    \E i \in 1..Len(t_work) :
        /\ t_work[i].k = "restore"
        /\ \E j \in 1..Len(t_work[i].n.names) : t_work[i].n.names[j] = v

\* the next step is visit_expr_if on an if whose condition mentions v
IfHeadMentions(v) ==
    /\ TWalking /\ THead.k = "expr" /\ THead.n.tag = "If"
    /\ \E i \in 1..Len(extract_variables(THead.n.cond)) : extract_variables(THead.n.cond)[i] = v

\* the flows the next step records for v
NewFlowsFor(v) ==
    {k \in (Len(flows) + 1)..Len(flows') : flows'[k].variable = v}

AmountPositive == EBinary(EIdent("amount"), ">", ELitInt(0))

\* C20 as stated: for an if whose condition mentions a Tainted name v, v is
\* Sanitized throughout the visit of the then-branch, and v is Tainted again
\* after the whole if, so that a sink after the if records a flow for v.
C20_SanitizedInThenTaintedAfter ==
    /\ \A v \in TaintNames : InsideThen(v) => get_status(variables, v) = "Sanitized"
    /\ \A t \in BindThens, e \in BindElses :
          Analyzed(<<SExpr(EIf(AmountPositive, t, e), FALSE), StTransfer("amount")>>)
              => TaintedFlow("amount", "Transfer", current_line) \in
                     {flows[k] : k \in 1..Len(flows)}

\* C20, amended: for an if whose condition mentions a Tainted name v, v is
\* Sanitized when the then-branch is entered and stays Sanitized while it is
\* visited unless a binding there re-binds v; while it is Sanitized no sink
\* records a flow for v; and v is Tainted when the then-branch has been left,
\* that is when the else-branch, or what follows an if without else, begins.
C20_SanitizedInThenUntilRebound ==
    [][\A v \in TaintNames :
          /\ IfHeadMentions(v) /\ get_status(variables, v) = "Tainted"
                => get_status(variables', v) = "Sanitized" /\ InsideThen(v)'
          /\ InsideThen(v) /\ ~RestoresHead(v) /\ get_status(variables, v) = "Sanitized"
                => /\ BindsHead(v) \/ get_status(variables', v) = "Sanitized"
                   /\ NewFlowsFor(v) = {}
          /\ RestoresHead(v) => get_status(variables', v) = "Tainted"]_vars

\* `if amount > 0 { transfer(amount); } else { transfer(amount); }
\*  transfer(amount);` has been analysed: the sink of the then-branch (line 2)
\* recorded nothing, those of the else-branch and after the if recorded a flow
C20_Witness ==
    /\ Analyzed(<<SExpr(EIf(AmountPositive, <<StTransfer("amount")>>,
                             <<EBlock(<<StTransfer("amount")>>)>>), FALSE),
                  StTransfer("amount")>>)
    /\ flows = <<TaintedFlow("amount", "Transfer", 3), TaintedFlow("amount", "Transfer", 4)>>

-----------------------------------------------------------------------------
(* Properties of sinks, under TaintSinkSpec *)

\* the next step is visit_expr_call on a sink whose single argument is
\* `v.checked_*(..)` or `v.saturating_*(..)`
MathSinkHead(v) ==
    /\ TWalking /\ THead.k = "expr" /\ THead.n.tag = "Call"
    /\ TextContains(SeqMap(to_lowercase, ExprWords(THead.n)), "transfer")
    /\ Len(THead.n.args) = 1
    /\ THead.n.args[1].tag = "MethodCall"
    /\ THead.n.args[1].receiver = EIdent(v)
    /\ \/ starts_with(THead.n.args[1].method, "checked_")
       \/ starts_with(THead.n.args[1].method, "saturating_")

FlowSet == {flows[k] : k \in 1..Len(flows)}

\* C29: sanitization by an if condition does not outlive the then-branch
\* through derived names: after `if amount > 0 { let y = amount; }` the sink
\* `transfer(y);` records a flow for y.
C29_DerivedNameFlowsAfterIf ==
    Analyzed(<<StIfDerive, StTransfer("y")>>)
        => TaintedFlow("y", "Transfer", current_line) \in FlowSet

\* C30: a sink call with a Tainted argument records a flow wherever it
\* occurs: in statement position, in a then-branch with an unrelated
\* condition, in an else-branch, and inside the condition of an if.
C30_SinkExaminedWhereverItOccurs ==
    \A st \in {StTransfer("amount"), StIfSinkThen, StIfSinkElse, StIfSinkCond} :
        Analyzed(<<st>>) => \E l \in 1..current_line : flows = <<TaintedFlow("amount", "Transfer", l)>>

-----------------------------------------------------------------------------
(* Properties of the scope depths, under ScopeSpec *)

\* every validation and every use recorded so far was recorded at depth d
RecordedAtDepth(d) ==
    /\ \A i \in 1..Len(usages) : usages[i].depth = d
    /\ \A v \in DOMAIN validated_at : validated_at[v] = d

\* C22: the statements of the then-branch and of the else-branch of an if at
\* depth 0 are visited at depth 1, and so is a loop body or a nested block:
\* what they validate and use is recorded at depth 1.
C22_BranchBodiesOneDeeper ==
    /\ \A c \in ScopeConds, t \in ScopeBranches, e \in ScopeBranches :
          ScopeAnalyzed(<<SExpr(EIf(c, t, <<EBlock(e)>>), FALSE)>>) => RecordedAtDepth(1)
    /\ \A n \in ScopeNests : ScopeAnalyzed(<<n>>) => RecordedAtDepth(1)

-----------------------------------------------------------------------------
(* Properties of the scope depth over nested bodies, under ScopeNestSpec *)

\* the increments (k = "enter") or decrements (k = "leave") still to come
\* for the constructs entered so far
Pending(k) == Cardinality({i \in 1..Len(s_work) : s_work[i].k = k})

\* C23: current_depth starts at 0, is never negative, every increment made
\* on entering a branch, loop body or block is matched by exactly one
\* decrement on leaving it (the depth is the number of decrements still owed
\* for increments already made), and it is 0 again when analyze returns.
C23_DepthBalanced ==
    /\ current_depth >= 0
    /\ s_pc = "new" => current_depth = 0
    /\ s_pc = "walk" => current_depth = Pending("leave") - Pending("enter")
    /\ s_pc \in {"walked", "done"} => current_depth = 0

\* `if cond { loop { token::transfer(ctx, amount); } } else if cond {
\*  require!(amount > 0); }` has been analysed: the use was recorded two
\* levels deep and the depth is 0 again
C23_Witness ==
    /\ s_pc = "done"
    /\ file = <<ItemFn("f", <<>>,
                  <<SExpr(EIf(EIdent("cond"), <<SExpr(ELoop(<<ScTransfer>>), FALSE)>>,
                              <<EIf(EIdent("cond"), <<StRequire>>, <<>>)>>), FALSE)>>)>>
    /\ usages = <<[var |-> "amount", line |-> 0, depth |-> 2]>>
    /\ current_depth = 0

-----------------------------------------------------------------------------
(* Properties of the recorded validations and of the reports, under ScopeSpec *)

\* the next step is visit_macro on a validating macro that mentions v
ValidatesHead(v) ==
    /\ SWalking
    /\ SHead.k = "macro" \/ (SHead.k = "expr" /\ SHead.n.tag = "Macro")
    /\ LET text == SHead.n.mac.path \o SHead.n.mac.tokens
       IN  TextContains(text, "require") \/ TextContains(text, "assert")
    /\ \E i \in 1..Len(SHead.n.mac.tokens) :
          SHead.n.mac.tokens[i] = v /\ keeps_word(v)

ScopeNames == {"amount", "cond", "vault", "items", "i"}

\* C24: after any prefix of the traversal the recorded validation depth of v
\* is the minimum of current_depth over the validating constructs mentioning
\* v visited so far: a validation sets it to the smaller of the depth already
\* recorded and the current depth, and nothing else changes it.
C24_ValidationDepthIsMinimum ==
    [][\A v \in ScopeNames :
          IF ValidatesHead(v)
          THEN /\ v \in DOMAIN validated_at'
               /\ validated_at'[v] =
                      IF v \in DOMAIN validated_at /\ validated_at[v] < current_depth
                      THEN validated_at[v] ELSE current_depth
          ELSE /\ (v \in DOMAIN validated_at') = (v \in DOMAIN validated_at)
               /\ v \in DOMAIN validated_at => validated_at'[v] = validated_at[v]]_vars

\* `require!(amount > 0); if cond { require!(amount > 0); }` has been
\* analysed: the later, deeper validation did not raise the recorded depth
C24_Witness ==
    /\ ScopeAnalyzed(<<StRequire, IfRequire(EIdent("cond"))>>)
    /\ validated_at = [v \in {"amount"} |-> 0]

\* the body of the analysed function holds `require!(amount > 0);` at depth 0
ValidatedAtTopLevel ==
    \E i \in 1..Len(file[1].stmts) : file[1].stmts[i] = StRequire

\* C25: the violations depend on the depths only, not on the order: a use of
\* `amount` at depth 0 is reported when its only validation is at depth 1
\* even if the validation comes after the use, and a depth-0 validation
\* anywhere in the body, before or after the use, suppresses every report
\* for `amount`.
C25_ViolationsIgnoreOrder ==
    /\ \A c \in ScopeConds :
          /\ ScopeAnalyzed(<<ScTransfer, IfRequire(c)>>)
                => violations = <<ScopeViolation("amount", 0, 1, 0)>>
          /\ ScopeAnalyzed(<<IfRequire(c), ScTransfer>>)
                => violations = <<ScopeViolation("amount", 0, 1, 0)>>
    /\ s_pc = "done" /\ Len(file) = 1 /\ ValidatedAtTopLevel
          => \A k \in 1..Len(violations) : violations[k].var # "amount"

\* `token::transfer(ctx, amount); if cond { require!(amount > 0); }` has
\* been analysed: the use that precedes the branch-local validation is
\* reported
C25_Witness ==
    /\ ScopeAnalyzed(<<ScTransfer, IfRequire(EIdent("cond"))>>)
    /\ violations = <<ScopeViolation("amount", 0, 1, 0)>>

-----------------------------------------------------------------------------
(* Properties of the indexed functions and modules, under IndexSpec *)

\* a parameter `name: Context<T>`
IsContextParam(arg) ==
    /\ arg.kind = "Typed"
    /\ Len(arg.ty) = 4 /\ arg.ty[1] = "Context" /\ arg.ty[2] = "<" /\ arg.ty[4] = ">"

\* the identifier-bound parameters of a function
IdentParams(f) ==
    {i \in 1..Len(f.inputs) : f.inputs[i].kind = "Typed" /\ f.inputs[i].pat.kind = "Ident"}

\* the InstructionInfo the claim gives for a function with a Context<T>
\* parameter: every identifier-bound parameter with its type, and T
ClaimedInstruction(path, f) ==
    LET c == CHOOSE i \in 1..Len(f.inputs) : IsContextParam(f.inputs[i])
    IN  [name |-> f.name, file |-> path,
         args |-> [n \in {f.inputs[i].pat.names[1] : i \in IdentParams(f)} |->
                      (f.inputs[CHOOSE i \in IdentParams(f) : f.inputs[i].pat.names[1] = n]).ty],
         context_type |-> Some(<<f.inputs[c].ty[3]>>), line |-> 0]

RECURSIVE ClaimedInstructions(_, _), ClaimedInstructionsOf(_)
\* the instructions the claim gives for the items of one file
ClaimedInstructions(path, items) ==
    IF items = <<>> THEN <<>>
    ELSE (IF Head(items).tag = "Fn"
             /\ \E i \in 1..Len(Head(items).inputs) : IsContextParam(Head(items).inputs[i])
          THEN <<ClaimedInstruction(path, Head(items))>> ELSE <<>>)
         \o ClaimedInstructions(path, Tail(items))
\* and for a sequence of index_file calls
ClaimedInstructionsOf(files) ==
    IF files = <<>> THEN <<>>
    ELSE (IF Head(files).source.parse_ok
          THEN ClaimedInstructions(Head(files).path, Head(files).source.items) ELSE <<>>)
         \o ClaimedInstructionsOf(Tail(files))

\* C26: a function item is recorded in the instruction list exactly when one
\* of its parameters has the type Context<T>; the recorded context type is T
\* and args holds every identifier-bound parameter with its type; any other
\* function leaves the list unchanged.
C26_InstructionsAreTheContextFunctions ==
    ~panicked => get_instructions(Context) = ClaimedInstructionsOf(indexed)

\* the items of kind `tag` at the top level of a file
TopItems(f, tag) ==
    {f.source.items[i] : i \in {j \in 1..Len(f.source.items) : f.source.items[j].tag = tag}}

\* the struct items placed directly inside a top-level inline module
ModStructs(f) ==
    UNION {{m.content[1][i] :
               i \in {j \in 1..Len(m.content[1]) : m.content[1][j].tag = "Struct"}} :
           m \in {x \in TopItems(f, "Mod") : x.content # <<>>}}

IndexedFiles == {indexed[k] : k \in 1..Len(indexed)}

C28_IfConditionRecordsValidation ==
    ScopeAnalyzed(<<IfTransfer(EBinary(EIdent("amount"), ">", ELitInt(0)))>>)
        => "amount" \in DOMAIN validated_at /\ validated_at["amount"] = 0

=============================================================================
